---------------------------- MODULE Spec2Model ----------------------------
(***************************************************************************)
(* The fertilizer rule engine of app.py: interpret, round_up, the static   *)
(* tables, recommend_for_farmer and the /recommend handler.                *)
(*                                                                         *)
(* Numbers.  A reading is a Python float; here it is an integer count of   *)
(* hundredths (0.3 is 30, 37.5 is 3750).  Every threshold, content         *)
(* fraction and sampled reading is a whole number of hundredths, and       *)
(* low * 0.8, (low + high) / 2 and high * 1.2 of the twelve threshold      *)
(* pairs are too.  A nutrient gap is scaled by 1.1 and by 0.8, so gaps are *)
(* counted in ten-thousandths (GapPerHundredth per hundredth), where both  *)
(* products are exact.  Strings are sequences of one-character strings.    *)
(*                                                                         *)
(* The arithmetic is exact where Python's is binary floating point: the    *)
(* two agree on every sampled request except where a quotient handed to    *)
(* ceil is a whole number, which the float quotient can overshoot (mustard,*)
(* N=-20, P=5, OC=0.3: 96.14 / 0.46 is 209, the code's Urea is 210).       *)
(* Readings are finite decimals: float() also reads "inf" and "nan", and   *)
(* ceil of an infinite requirement (S = "-inf") raises OverflowError.      *)
(***************************************************************************)
EXTENDS Integers, Sequences, FiniteSets, TLC

VARIABLES pc, request, response, frame

vars == <<pc, request, response, frame>>

\* --------------------------------------------------------------- numbers

\* hundredths per unit: the fixed point of a reading
Scale == 10 * 10

\* ten-thousandths per hundredth: the fixed point of a gap
GapPerHundredth == 10 * 10

Max(a, b) == IF a >= b THEN a ELSE b

\* a faulty round_up: rounds down
round_down(num, den) == num \div den

\* round_up(x) for x = num / den, den > 0: math.ceil
round_up(num, den) == IF num % den = 0 THEN num \div den ELSE (num \div den) + 1

\* ---------------------------------------------------------------- strings

UpperAlpha == <<"A","B","C","D","E","F","G","H","I","J","K","L","M",
                "N","O","P","Q","R","S","T","U","V","W","X","Y","Z">>

LowerAlpha == <<"a","b","c","d","e","f","g","h","i","j","k","l","m",
                "n","o","p","q","r","s","t","u","v","w","x","y","z">>

Digits == <<"0","1","2","3","4","5","6","7","8","9">>

IsSpace(c) == c = " "

\* the value of each decimal digit
DigitValue == [c \in {Digits[i] : i \in 1..10} |->
                  (CHOOSE i \in 1..10 : Digits[i] = c) - 1]

IsDigit(c) == c \in DOMAIN DigitValue

DigitVal(c) == DigitValue[c]

\* the lower-case letter of each upper-case letter
ToLower == [c \in {UpperAlpha[i] : i \in 1..26} |->
               LowerAlpha[CHOOSE i \in 1..26 : UpperAlpha[i] = c]]

LowerChar(c) == IF c \in DOMAIN ToLower THEN ToLower[c] ELSE c

\* str.lower()
Lower(s) == [i \in 1..Len(s) |-> LowerChar(s[i])]

RECURSIVE LStrip(_)
LStrip(s) == IF s # <<>> /\ IsSpace(Head(s)) THEN LStrip(Tail(s)) ELSE s

RECURSIVE RStrip(_)
RStrip(s) == IF s # <<>> /\ IsSpace(s[Len(s)])
             THEN RStrip(SubSeq(s, 1, Len(s) - 1)) ELSE s

\* str.strip()
Strip(s) == RStrip(LStrip(s))

\* ------------------------------------------------------- optional floats

\* float | None
Absent == [some |-> FALSE, v |-> 0]

Some(x) == [some |-> TRUE, v |-> x]

\* Python truthiness of float | None: None and 0.0 are both false
Truthy(x) == x.some /\ x.v # 0

RECURSIVE DigitsValue(_)
DigitsValue(ds) == IF ds = <<>> THEN 0
                   ELSE 10 * DigitsValue(SubSeq(ds, 1, Len(ds) - 1))
                        + DigitVal(ds[Len(ds)])

AllDigits(ds) == \A i \in 1..Len(ds) : IsDigit(ds[i])

\* the fraction digits of a decimal literal, in hundredths
FracHundredths(fs) ==
    IF Len(fs) = 0 THEN 0
    ELSE IF Len(fs) = 1 THEN 10 * DigitVal(fs[1])
    ELSE 10 * DigitVal(fs[1]) + DigitVal(fs[2])

\* an unsigned decimal literal: digits, digits '.' digits*, '.' digits+
UnsignedFloat(b) ==
    LET dots == {i \in 1..Len(b) : b[i] = "."} IN
    IF dots = {} THEN
        IF b # <<>> /\ AllDigits(b) THEN Some(Scale * DigitsValue(b)) ELSE Absent
    ELSE IF Cardinality(dots) > 1 THEN Absent
    ELSE LET d  == CHOOSE i \in dots : TRUE
             ip == SubSeq(b, 1, d - 1)
             fp == SubSeq(b, d + 1, Len(b))
         IN IF AllDigits(ip) /\ AllDigits(fp) /\ Len(ip) + Len(fp) > 0
            THEN Some(Scale * DigitsValue(ip) + FracHundredths(fp))
            ELSE Absent

\* float(s) of a str, ValueError as Absent: surrounding whitespace is
\* skipped, then an optional sign and a decimal literal.  (Literals with
\* more than two fraction digits, exponents, "inf" and "nan" are not in the
\* sampled alphabet.)
ParseFloat(s) ==
    LET t == Strip(s) IN
    IF t = <<>> THEN Absent
    ELSE IF Head(t) = "-" THEN
        LET u == UnsignedFloat(Tail(t)) IN
        IF u.some THEN Some(0 - u.v) ELSE Absent
    ELSE IF Head(t) = "+" THEN UnsignedFloat(Tail(t))
    ELSE UnsignedFloat(t)

\* ------------------------------------------------------------ raw values

\* a JSON value of the request: a number, a string, or None (key missing)
Num(x) == [kind |-> "num", num |-> x, str |-> <<>>]

Str(s) == [kind |-> "str", num |-> 0, str |-> s]

None == [kind |-> "none", num |-> 0, str |-> <<>>]

\* str(value) of a non-numeric value
PyStr(value) == IF value.kind = "none" THEN <<"N","o","n","e">> ELSE value.str

\* a faulty PyFloat: a value that does not parse reads as 0.0
PyFloat_or_zero(value) ==
    IF value.kind = "none" THEN Some(0)
    ELSE IF ParseFloat(value.str).some THEN ParseFloat(value.str) ELSE Some(0)

\* try: float(value) / except: None, of a non-numeric value (TypeError for
\* None, ValueError for a string that is no number)
PyFloat(value) == IF value.kind = "none" THEN Absent ELSE ParseFloat(value.str)

\* a faulty interpret: the "high" tokens give the bare high threshold
interpret_high_unscaled(value, low, high) ==
    IF value.kind = "num" THEN Some(value.num)
    ELSE LET v == Lower(Strip(PyStr(value))) IN
         IF v \in {<<"l","o","w">>, <<"l">>} THEN Some((low * 8) \div 10)
         ELSE IF v \in {<<"m","e","d","i","u","m">>, <<"m","e","d">>, <<"m">>}
              THEN Some((low + high) \div 2)
         ELSE IF v \in {<<"h","i","g","h">>, <<"h">>} THEN Some(high)
         ELSE PyFloat(value)

\* interpret(value, low, high)
interpret(value, low, high) ==
    IF value.kind = "num" THEN Some(value.num)
    ELSE LET v == Lower(Strip(PyStr(value))) IN
         IF v \in {<<"l","o","w">>, <<"l">>} THEN Some((low * 8) \div 10)
         ELSE IF v \in {<<"m","e","d","i","u","m">>, <<"m","e","d">>, <<"m">>}
              THEN Some((low + high) \div 2)
         ELSE IF v \in {<<"h","i","g","h">>, <<"h">>} THEN Some((high * 12) \div 10)
         ELSE PyFloat(value)

\* ----------------------------------------------------------------- tables

Keys == <<"N", "P", "K", "S", "Zn", "Fe", "Cu", "Mn", "B", "OC", "pH", "EC">>

KeySet == {Keys[i] : i \in 1..Len(Keys)}

wheat == <<"w","h","e","a","t">>

paddy == <<"p","a","d","d","y">>

maize == <<"m","a","i","z","e">>

cotton == <<"c","o","t","t","o","n">>

mustard == <<"m","u","s","t","a","r","d">>

\* baseline_npk: (N, P2O5, K2O) in kg/ha
baseline_npk ==
    (wheat :> <<120, 60, 40>>) @@ (paddy :> <<150, 60, 40>>) @@
    (maize :> <<150, 75, 50>>) @@ (cotton :> <<100, 50, 50>>) @@
    (mustard :> <<80, 40, 30>>)

\* FERT_N_CONTENT, in hundredths
UREA_N == 46

DAP_N == 18

DAP_P2O5 == 46

MOP_K2O == 60

GYPSUM_S == 18

ZNSO4_ZN == 21

BORAX_B == 11

COMPOST_OC == 50

\* ref_thresholds: (low, high) in hundredths
ref_thresholds ==
    [k \in KeySet |->
        CASE k = "N"  -> <<28000, 50000>>
          [] k = "P"  -> <<1000, 2500>>
          [] k = "K"  -> <<12000, 28000>>
          [] k = "S"  -> <<1000, 2000>>
          [] k = "Zn" -> <<60, 150>>
          [] k = "Fe" -> <<450, 1000>>
          [] k = "Cu" -> <<20, 100>>
          [] k = "Mn" -> <<200, 500>>
          [] k = "B"  -> <<50, 100>>
          [] k = "OC" -> <<50, 80>>
          [] k = "pH" -> <<650, 750>>
          [] k = "EC" -> <<0, 400>>]

\* the literal 6.0 of the acidic test, in hundredths
PH_ACIDIC == 600

\* the literal 8.5 of the alkaline test, in hundredths
PH_ALKALINE == 850

\* the literal 4 of the two salinity tests, in hundredths
EC_SALINE == 400

\* the literal 1000 multiplying compost_needed
COMPOST_FACTOR == 1000

\* ------------------------------------------------------------------ engine

EmptyPlan == [l \in {} |-> 0]

\* fert_plan[label] = qty
put(plan, label, qty) == (label :> qty) @@ plan

\* a message: which rule wrote it, the quantity and the crop_name it names
Msg(text, qty, crop) == [text |-> text, qty |-> qty, crop |-> crop]

\* a faulty append: inserts at the front
prepend(messages, m) == <<m>> \o messages

\* messages.append(m)
append(messages, m) == Append(messages, m)

\* a faulty dap_credit: DAP's nitrogen is not credited
dap_credit_none(dap_needed) == 0

\* N_from_dap = dap_needed * FERT_N_CONTENT["dap"]["N"], in ten-thousandths
dap_credit(dap_needed) == dap_needed * DAP_N * GapPerHundredth

\* x and x < ref_thresholds[k][0]
below_low(x, k) == Truthy(x) /\ x.v < ref_thresholds[k][1]

\* EC and EC > 4
saline(EC) == Truthy(EC) /\ EC.v > EC_SALINE

\* (x if x else 0)
reading_or_zero(x) == IF Truthy(x) THEN x.v ELSE 0

\* a faulty supported: the lookup is case-sensitive
supported_exact(crop_name) == crop_name.str \in DOMAIN baseline_npk

\* crop_name.lower() in baseline_npk
supported(crop_name) == Lower(crop_name.str) \in DOMAIN baseline_npk

\* the locals of a call, before line 51
Locals(crop_name) ==
    [raised |-> "", error |-> <<>>, crop_name |-> crop_name,
     messages |-> <<>>, fert_plan |-> EmptyPlan,
     vals |-> [k \in KeySet |-> Absent],
     need_N |-> 0, need_P2O5 |-> 0, need_K2O |-> 0, N_from_dap |-> 0, remaining_N |-> 0]

\* the result of a call that raised
Raised(exc, text, crop_name) == [Locals(crop_name) EXCEPT !.raised = exc, !.error = text]

\* lines 51-62: interpret all 12 parameters
interpret_all(s, inputs) ==
    [s EXCEPT !.vals = [k \in KeySet |->
        interpret(inputs[k], ref_thresholds[k][1], ref_thresholds[k][2])]]

\* lines 64-69: the nutrient gaps, in ten-thousandths
gaps(s, base) ==
    [s EXCEPT
        !.need_N    = GapPerHundredth * Max(0, Scale * base[1] - reading_or_zero(s.vals["N"])),
        !.need_P2O5 = GapPerHundredth * Max(0, Scale * base[2] - reading_or_zero(s.vals["P"])),
        !.need_K2O  = GapPerHundredth * Max(0, Scale * base[3] - reading_or_zero(s.vals["K"]))]

\* lines 71-72: need_N *= 1.1
scale_for_OC(s) ==
    IF below_low(s.vals["OC"], "OC")
    THEN [s EXCEPT !.need_N = (@ * 11) \div 10]
    ELSE s

\* lines 73-74: need_N *= 0.8; need_P2O5 *= 0.8; need_K2O *= 0.8
scale_for_EC(s) ==
    IF saline(s.vals["EC"])
    THEN [s EXCEPT !.need_N = (@ * 8) \div 10,
                   !.need_P2O5 = (@ * 8) \div 10,
                   !.need_K2O = (@ * 8) \div 10]
    ELSE s

\* one product rule: fert_plan[label] = qty and the product's message
record(s, text, label, qty, shown, crop) ==
    [s EXCEPT !.fert_plan = put(@, label, qty),
              !.messages = append(@, Msg(text, shown, crop))]

\* one advisory rule: its message
advise(s, text) == [s EXCEPT !.messages = append(@, Msg(text, 0, <<>>))]

\* lines 79-85
dose_DAP(s) ==
    IF s.need_P2O5 > 0
    THEN LET dap_needed == round_up(s.need_P2O5, DAP_P2O5 * GapPerHundredth) IN
         record([s EXCEPT !.N_from_dap = dap_credit(dap_needed)],
                "DAP", "DAP_kg/ha", dap_needed, dap_needed, s.crop_name)
    ELSE [s EXCEPT !.N_from_dap = 0]

\* line 87
remaining(s) == [s EXCEPT !.remaining_N = Max(0, s.need_N - s.N_from_dap)]

\* lines 88-91
dose_Urea(s) ==
    IF s.remaining_N > 0
    THEN LET urea_needed == round_up(s.remaining_N, UREA_N * GapPerHundredth) IN
         record(s, "Urea", "Urea_kg/ha", urea_needed, urea_needed, s.crop_name)
    ELSE s

\* lines 93-96
dose_MOP(s) ==
    IF s.need_K2O > 0
    THEN LET mop_needed == round_up(s.need_K2O, MOP_K2O * GapPerHundredth) IN
         record(s, "MOP", "MOP_kg/ha", mop_needed, mop_needed, s.crop_name)
    ELSE s

\* lines 98-101
dose_Gypsum(s) ==
    IF below_low(s.vals["S"], "S")
    THEN LET gypsum_needed == round_up(ref_thresholds["S"][1] - s.vals["S"].v, GYPSUM_S) IN
         record(s, "Gypsum", "Gypsum_kg/ha", gypsum_needed, gypsum_needed, s.crop_name)
    ELSE s

\* lines 103-106
dose_ZnSO4(s) ==
    IF below_low(s.vals["Zn"], "Zn")
    THEN LET zn_needed == round_up(ref_thresholds["Zn"][1] - s.vals["Zn"].v, ZNSO4_ZN) IN
         record(s, "ZnSO4", "ZnSO4_kg/ha", zn_needed, zn_needed, <<>>)
    ELSE s

\* lines 108-111
dose_Borax(s) ==
    IF below_low(s.vals["B"], "B")
    THEN LET borax_needed == round_up(ref_thresholds["B"][1] - s.vals["B"].v, BORAX_B) IN
         record(s, "Borax", "Borax_kg/ha", borax_needed, borax_needed, <<>>)
    ELSE s

\* lines 113-116
dose_Compost(s) ==
    IF below_low(s.vals["OC"], "OC")
    THEN LET compost_needed ==
                 round_up(ref_thresholds["OC"][1] - s.vals["OC"].v, COMPOST_OC) IN
         record(s, "Compost", "Compost_kg/ha", compost_needed * COMPOST_FACTOR,
                compost_needed, <<>>)
    ELSE s

\* lines 118-123
advise_foliar(s, k) == IF below_low(s.vals[k], k) THEN advise(s, k) ELSE s

\* lines 125-128
advise_pH(s) ==
    IF Truthy(s.vals["pH"]) /\ s.vals["pH"].v < PH_ACIDIC THEN advise(s, "acidic")
    ELSE IF Truthy(s.vals["pH"]) /\ s.vals["pH"].v > PH_ALKALINE THEN advise(s, "alkaline")
    ELSE s

\* lines 130-131
advise_EC(s) == IF saline(s.vals["EC"]) THEN advise(s, "EC") ELSE s

\* recommend_for_farmer(inputs, crop_name): the returned (messages,
\* fert_plan), or the exception raised, with the locals of the call
recommend_for_farmer(inputs, crop_name) ==
    IF crop_name.kind # "str" THEN Raised("AttributeError", <<>>, <<>>)
    ELSE IF ~supported(crop_name)
         THEN Raised("ValueError", Lower(crop_name.str), crop_name.str)
    ELSE
    LET s1  == interpret_all(Locals(crop_name.str), inputs)
        s2  == gaps(s1, baseline_npk[Lower(crop_name.str)])
        s3  == scale_for_EC(scale_for_OC(s2))
        s4  == dose_MOP(dose_Urea(remaining(dose_DAP(s3))))
        s5  == dose_Compost(dose_Borax(dose_ZnSO4(dose_Gypsum(s4))))
        s6  == advise_foliar(advise_foliar(advise_foliar(s5, "Fe"), "Cu"), "Mn")
    IN  advise_EC(advise_pH(s6))

\* ---------------------------------------------------------------- requests

\* how many readings of a profile a request may replace
MaxOverrides == 1

\* the strings a reading is sampled from
SampleStrings ==
    << <<"l","o","w">>, <<" ","L"," ">>, <<"m","e","d","i","u","m">>,
       <<"M","e","d">>, <<"m">>, <<"h","i","g","h">>, <<"H"," ">>,
       <<"3","7",".","5">>, <<"g","a","r","b","a","g","e">> >>

\* the numbers (in hundredths) a reading is sampled from, per key
SampleNumbers ==
    [k \in KeySet |->
        CASE k = "N"  -> <<0, 11000, 15000, -2000>>
          [] k = "P"  -> <<0, 500, 6000, 1400>>
          [] k = "K"  -> <<0, 5000, 2500, 10000>>
          [] k = "S"  -> <<0, 500, 1000, -100>>
          [] k = "Zn" -> <<0, 30, 60, 200>>
          [] k = "Fe" -> <<0, 200, 450, 1000>>
          [] k = "Cu" -> <<0, 10, 20, 100>>
          [] k = "Mn" -> <<0, 100, 200, 500>>
          [] k = "B"  -> <<0, 20, 50, 49>>
          [] k = "OC" -> <<0, 30, 50, -50>>
          [] k = "pH" -> <<0, 599, 850, 851>>
          [] k = "EC" -> <<0, 400, 401, 500>>]

NumSamples == Len(SampleStrings) + Len(SampleNumbers["N"]) + 1

\* the i-th sample of key k: a string, a number, or the key left out
Sample(k, i) ==
    IF i <= Len(SampleStrings) THEN Str(SampleStrings[i])
    ELSE IF i <= Len(SampleStrings) + Len(SampleNumbers[k])
         THEN Num(SampleNumbers[k][i - Len(SampleStrings)])
         ELSE None

NoReadings == [k \in KeySet |-> None]

\* N=100, P=5, K=50, OC=0.3, EC=1, pH=7
WheatScenario ==
    [NoReadings EXCEPT !["N"] = Num(10000), !["P"] = Num(500), !["K"] = Num(5000),
                       !["OC"] = Num(30), !["EC"] = Num(100), !["pH"] = Num(700)]

\* every reading deficient, on saline soil
AllDeficient ==
    [k \in KeySet |->
        CASE k = "N"  -> Num(5000)
          [] k = "P"  -> Num(2000)
          [] k = "K"  -> Num(1000)
          [] k = "S"  -> Num(500)
          [] k = "Zn" -> Num(30)
          [] k = "Fe" -> Num(200)
          [] k = "Cu" -> Num(10)
          [] k = "Mn" -> Num(100)
          [] k = "B"  -> Num(20)
          [] k = "OC" -> Num(30)
          [] k = "pH" -> Num(500)
          [] k = "EC" -> Num(500)]

Profiles == {NoReadings, WheatScenario, AllDeficient}

CropNames ==
    {Str(wheat), Str(<<"P","a","d","d","y">>), Str(<<"M","A","I","Z","E">>),
     Str(cotton), Str(<<"M","u","s","t","a","r","d">>),
     Str(<<"s","o","y","b","e","a","n">>), Str(<<"w","h","e","a","t"," ">>), None}

\* the sets of keys a request may replace
OverrideSets == {x \in SUBSET KeySet : Cardinality(x) <= MaxOverrides}

\* profile p with the keys of f replaced by the samples f names
Override(p, f) == [k \in KeySet |-> IF k \in DOMAIN f THEN Sample(k, f[k]) ELSE p[k]]

NoResponse == [status |-> 0, error |-> <<>>, messages |-> <<>>, fert_plan |-> EmptyPlan]

\* ----------------------------------------------------------- state machine

\* a POST /recommend with body {"crop": ..., "inputs": {...}} has arrived
Init ==
    /\ pc = "pending"
    /\ \E p \in Profiles, c \in CropNames :
         \E ks \in OverrideSets :
            \E f \in [ks -> 1..NumSamples] :
               request = [crop |-> c, inputs |-> Override(p, f)]
    /\ response = NoResponse
    /\ frame = Locals(<<>>)

\* str(e) of the exception recommend_for_farmer raised
ErrorText(r) ==
    IF r.raised = "ValueError" THEN <<"Unsupported crop: ">> \o r.error
    ELSE <<"'NoneType' object has no attribute 'lower'">>

\* the handler's answer to the outcome r of recommend_for_farmer
reply(r) ==
    IF r.raised = ""
    THEN [status |-> 200, error |-> <<>>,
          messages |-> r.messages, fert_plan |-> r.fert_plan]
    ELSE [status |-> 400, error |-> ErrorText(r),
          messages |-> <<>>, fert_plan |-> EmptyPlan]

\* the /recommend handler
recommend ==
    /\ pc = "pending"
    /\ LET r == recommend_for_farmer(request.inputs, request.crop) IN
         /\ frame' = r
         /\ response' = reply(r)
    /\ pc' = "done"
    /\ UNCHANGED request

Next == recommend

Spec == Init /\ [][Next]_vars

\* -------------------------------------------------------------- properties

\* recommend_for_farmer returned and the handler answered 200
Returned == pc = "done" /\ response.status = 200

\* the request names a crop, and lower-cased it is one of the five
CropIsSupported ==
    /\ request.crop.kind = "str"
    /\ Lower(request.crop.str) \in {wheat, paddy, maize, cotton, mustard}

InPlan(label) == label \in DOMAIN response.fert_plan

\* the rules that wrote a message
Texts == {response.messages[i].text : i \in 1..Len(response.messages)}

\* the least integer n with n * den >= num, for den > 0
CeilDiv(num, den) ==
    CHOOSE n \in ((num \div den) - 1)..((num \div den) + 1) :
        n * den >= num /\ (n - 1) * den < num

PlanLabels == {"DAP_kg/ha", "Urea_kg/ha", "MOP_kg/ha", "Gypsum_kg/ha",
               "ZnSO4_kg/ha", "Borax_kg/ha", "Compost_kg/ha"}

\* C1: a crop name that is not, case-insensitively, one of the five
\* supported crops makes recommend_for_farmer raise the unsupported-crop
\* error, whatever the readings, with no reading interpreted and no plan or
\* message returned, and the handler answers 400 with the error text; a
\* supported name in any letter case does not raise.
C1_UnsupportedCropRejected ==
    (pc = "done" /\ request.crop.kind = "str") =>
        IF CropIsSupported
        THEN frame.raised = "" /\ response.status = 200
        ELSE /\ frame.raised = "ValueError"
             /\ \A k \in KeySet : frame.vals[k] = Absent
             /\ frame.messages = <<>>
             /\ DOMAIN frame.fert_plan = {}
             /\ response.status = 400
             /\ response.error = <<"Unsupported crop: ">> \o Lower(request.crop.str)
             /\ response.messages = <<>>
             /\ DOMAIN response.fert_plan = {}

\* an unsupported crop was rejected although readings were sent
C1_Witness ==
    /\ pc = "done"
    /\ request.crop = Str(<<"s","o","y","b","e","a","n">>)
    /\ \E k \in KeySet : request.inputs[k].kind = "num"
    /\ response.status = 400

\* the content fraction of each product, in hundredths
FractionOf(label) ==
    CASE label = "DAP_kg/ha"     -> 46
      [] label = "Urea_kg/ha"    -> 46
      [] label = "MOP_kg/ha"     -> 60
      [] label = "Gypsum_kg/ha"  -> 18
      [] label = "ZnSO4_kg/ha"   -> 21
      [] label = "Borax_kg/ha"   -> 11
      [] label = "Compost_kg/ha" -> 50

\* the unrounded requirement behind each product, in ten-thousandths
RequirementOf(label) ==
    CASE label = "DAP_kg/ha"     -> frame.need_P2O5
      [] label = "Urea_kg/ha"    -> frame.remaining_N
      [] label = "MOP_kg/ha"     -> frame.need_K2O
      [] label = "Gypsum_kg/ha"  -> 100 * (1000 - frame.vals["S"].v)
      [] label = "ZnSO4_kg/ha"   -> 100 * (60 - frame.vals["Zn"].v)
      [] label = "Borax_kg/ha"   -> 100 * (50 - frame.vals["B"].v)
      [] label = "Compost_kg/ha" -> 100 * (50 - frame.vals["OC"].v)

\* C2: every entry of a returned plan has one of the seven labels and a
\* strictly positive integer quantity that is at least the unrounded
\* requirement divided by the product's content fraction.
C2_PlanQuantities ==
    Returned =>
        \A l \in DOMAIN response.fert_plan :
            /\ l \in PlanLabels
            /\ response.fert_plan[l] \in Nat
            /\ response.fert_plan[l] > 0
            /\ response.fert_plan[l] * FractionOf(l) * 100 >= RequirementOf(l)

\* a plan with all seven products was returned
C2_Witness == Returned /\ DOMAIN response.fert_plan = PlanLabels

RuleOrder == <<"DAP", "Urea", "MOP", "Gypsum", "ZnSO4", "Borax", "Compost",
               "Fe", "Cu", "Mn", "pH", "EC">>

\* the rule a message belongs to: the acidic and the alkaline advisory are
\* the two outcomes of the pH rule
RuleOf(text) == IF text \in {"acidic", "alkaline"} THEN "pH" ELSE text

RuleIndex(text) == CHOOSE i \in 1..Len(RuleOrder) : RuleOrder[i] = RuleOf(text)

LabelOf(product) ==
    CASE product = "DAP"     -> "DAP_kg/ha"
      [] product = "Urea"    -> "Urea_kg/ha"
      [] product = "MOP"     -> "MOP_kg/ha"
      [] product = "Gypsum"  -> "Gypsum_kg/ha"
      [] product = "ZnSO4"   -> "ZnSO4_kg/ha"
      [] product = "Borax"   -> "Borax_kg/ha"
      [] product = "Compost" -> "Compost_kg/ha"

\* C3: the returned messages follow the fixed rule order DAP, Urea, MOP,
\* Gypsum, ZnSO4, Borax, Compost, Fe, Cu, Mn, pH, EC, at most one message
\* per rule, and a product's message is present exactly when the product's
\* label is in the plan.
C3_MessageOrder ==
    Returned =>
        LET m == response.messages IN
        /\ \A i \in 1..Len(m) :
              \E r \in 1..Len(RuleOrder) : RuleOrder[r] = RuleOf(m[i].text)
        /\ \A i, j \in 1..Len(m) :
              i < j => RuleIndex(m[i].text) < RuleIndex(m[j].text)
        /\ \A r \in 1..7 : (RuleOrder[r] \in Texts) <=> InPlan(LabelOf(RuleOrder[r]))

\* all twelve rules wrote a message
C3_Witness == Returned /\ Len(response.messages) = Len(RuleOrder)

\* what the interpreter is to return for each sampled raw value
ExpectedReading(raw, low, high) ==
    IF raw.kind = "num" THEN Some(raw.num)
    ELSE IF raw.kind = "none" THEN Absent
    ELSE IF raw.str \in {<<"l","o","w">>, <<" ","L"," ">>}
         THEN Some((low * 4) \div 5)
    ELSE IF raw.str \in {<<"m","e","d","i","u","m">>, <<"M","e","d">>, <<"m">>}
         THEN Some((low + high) \div 2)
    ELSE IF raw.str \in {<<"h","i","g","h">>, <<"H"," ">>}
         THEN Some((high * 6) \div 5)
    ELSE IF raw.str = <<"3","7",".","5">> THEN Some(3750)
    ELSE Absent

\* C9: interpret returns a number unchanged, maps low/l, medium/med/m and
\* high/h (trimmed, in any letter case) to low * 0.8, (low + high) / 2 and
\* high * 1.2, and any other string to its numeric parse or to absent; with
\* the thresholds (10, 25) of P: "low" 8.0, "medium" 17.5, "high" 30.0,
\* "37.5" 37.5, "garbage" absent.
C9_Interpret ==
    (pc = "done" /\ frame.raised = "") =>
        /\ \A k \in KeySet :
              frame.vals[k] = ExpectedReading(request.inputs[k],
                                              ref_thresholds[k][1], ref_thresholds[k][2])
        /\ request.inputs["P"] = Str(<<"l","o","w">>) => frame.vals["P"] = Some(800)
        /\ request.inputs["P"] = Str(<<"m","e","d","i","u","m">>)
              => frame.vals["P"] = Some(1750)
        /\ request.inputs["P"] = Str(<<"h","i","g","h">>) => frame.vals["P"] = Some(3000)
        /\ request.inputs["P"] = Str(<<"3","7",".","5">>) => frame.vals["P"] = Some(3750)
        /\ request.inputs["P"] = Str(<<"g","a","r","b","a","g","e">>)
              => frame.vals["P"] = Absent

\* "high" was interpreted against the thresholds (10, 25)
C9_Witness ==
    /\ pc = "done"
    /\ request.inputs["P"] = Str(<<"h","i","g","h">>)
    /\ frame.vals["P"] = Some(3000)

\* C10: for a non-negative organic-carbon reading Compost_kg/ha is absent or
\* exactly 1000 (one ton in the message); 2000 or more needs a negative
\* reading; the plan quantity is 1000 times the tons the message names.
C10_CompostDose ==
    Returned =>
        LET OC == frame.vals["OC"]
            m  == response.messages
        IN
        /\ (OC.some /\ OC.v >= 0 /\ InPlan("Compost_kg/ha"))
              => response.fert_plan["Compost_kg/ha"] = 1000
        /\ (InPlan("Compost_kg/ha") /\ response.fert_plan["Compost_kg/ha"] >= 2000)
              => (OC.some /\ OC.v < 0)
        /\ InPlan("Compost_kg/ha") =>
              \E i \in 1..Len(m) :
                  /\ m[i].text = "Compost"
                  /\ response.fert_plan["Compost_kg/ha"] = 1000 * m[i].qty
        /\ \A i \in 1..Len(m) :
              (m[i].text = "Compost" /\ OC.some /\ OC.v >= 0) => m[i].qty = 1

\* a negative organic-carbon reading produced two tons of compost
C10_Witness ==
    /\ Returned
    /\ frame.vals["OC"].v < 0
    /\ InPlan("Compost_kg/ha")
    /\ response.fert_plan["Compost_kg/ha"] = 2000

\* the product quantity the sulfur, zinc, boron and organic-carbon rules are
\* to record for a reading x that is present and below low
DoseFor(k, x) ==
    CASE k = "S"  -> CeilDiv(1000 - x, 18)
      [] k = "Zn" -> CeilDiv(60 - x, 21)
      [] k = "B"  -> CeilDiv(50 - x, 11)
      [] k = "OC" -> 1000 * CeilDiv(50 - x, 50)

LowOf(k) ==
    CASE k = "S" -> 1000 [] k = "Zn" -> 60 [] k = "B" -> 50 [] k = "OC" -> 50
      [] k = "Fe" -> 450 [] k = "Cu" -> 20 [] k = "Mn" -> 200

ProductOf(k) ==
    CASE k = "S" -> "Gypsum_kg/ha" [] k = "Zn" -> "ZnSO4_kg/ha"
      [] k = "B" -> "Borax_kg/ha" [] k = "OC" -> "Compost_kg/ha"

\* C4: for S, Zn, B and OC, a reading that is present (numeric 0 included)
\* and strictly below its low threshold (10, 0.6, 0.5, 0.5) puts the product
\* in the plan with quantity ceil((low - reading) / fraction) (times 1000 for
\* Compost); an absent reading, or one not below the threshold, leaves the
\* product out of the plan.
C4_SecondaryDoses ==
    Returned =>
        \A k \in {"S", "Zn", "B", "OC"} :
            LET x == frame.vals[k] IN
            IF x.some /\ x.v < LowOf(k)
            THEN /\ InPlan(ProductOf(k))
                 /\ response.fert_plan[ProductOf(k)] = DoseFor(k, x.v)
            ELSE ~InPlan(ProductOf(k))

\* C5: the Fe, Cu and Mn foliar messages are written exactly when the
\* reading is present and below 4.5, 0.2, 2; the acidic message exactly when
\* pH is present and below 6.0 (0 included); the alkaline message exactly
\* when pH > 8.5; the salinity message exactly when EC > 4; never both pH
\* messages; none of them adds a plan entry.
C5_Advisories ==
    Returned =>
        LET pH == frame.vals["pH"]
            EC == frame.vals["EC"]
        IN
        /\ \A k \in {"Fe", "Cu", "Mn"} :
              (k \in Texts) <=> (frame.vals[k].some /\ frame.vals[k].v < LowOf(k))
        /\ ("acidic" \in Texts) <=> (pH.some /\ pH.v < 600)
        /\ ("alkaline" \in Texts) <=> (pH.some /\ pH.v > 850)
        /\ ("EC" \in Texts) <=> (EC.some /\ EC.v > 400)
        /\ ~("acidic" \in Texts /\ "alkaline" \in Texts)
        /\ DOMAIN response.fert_plan \subseteq PlanLabels

\* the baseline (N, P2O5, K2O) of the request's crop, in kg/ha
BaselineOfRequest ==
    LET c == Lower(request.crop.str) IN
    CASE c = wheat   -> <<120, 60, 40>>
      [] c = paddy   -> <<150, 60, 40>>
      [] c = maize   -> <<150, 75, 50>>
      [] c = cotton  -> <<100, 50, 50>>
      [] c = mustard -> <<80, 40, 30>>

\* max(0, baseline - reading), an absent reading counted as 0, in
\* ten-thousandths
RawGap(baseline, x) ==
    LET r == IF x.some THEN x.v ELSE 0 IN
    IF 100 * baseline - r > 0 THEN 100 * (100 * baseline - r) ELSE 0

\* C6: need_X = max(0, baseline_X - reading_X), an absent reading counted as
\* 0; need_N is multiplied by 1.1 exactly when OC is present and below 0.5,
\* then all three by 0.8 exactly when EC is present and above 4, so that
\* both together give 0.88 of the raw nitrogen gap, and a zero gap stays 0.
C6_Gaps ==
    Returned =>
        LET OC  == frame.vals["OC"]
            EC  == frame.vals["EC"]
            oc  == OC.some /\ OC.v < 50
            ec  == EC.some /\ EC.v > 400
            b   == BaselineOfRequest
            gN  == RawGap(b[1], frame.vals["N"])
            gP  == RawGap(b[2], frame.vals["P"])
            gK  == RawGap(b[3], frame.vals["K"])
        IN
        /\ frame.need_N * 100 =
              gN * (IF oc /\ ec THEN 88 ELSE IF oc THEN 110 ELSE IF ec THEN 80 ELSE 100)
        /\ frame.need_P2O5 * 10 = gP * (IF ec THEN 8 ELSE 10)
        /\ frame.need_K2O * 10 = gK * (IF ec THEN 8 ELSE 10)
        /\ gN = 0 => frame.need_N = 0
        /\ gP = 0 => frame.need_P2O5 = 0
        /\ gK = 0 => frame.need_K2O = 0

\* C7: DAP_kg/ha = ceil(need_P2O5 / 0.46) is recorded exactly when
\* need_P2O5 > 0 and credits N_from_dap = 0.18 * DAP (0 without DAP);
\* Urea_kg/ha = ceil(max(0, need_N - N_from_dap) / 0.46) is recorded exactly
\* when need_N exceeds N_from_dap; wheat with N=100, P=5, K=50, OC=0.3, EC=1,
\* pH=7 gets exactly {DAP_kg/ha: 120, Urea_kg/ha: 1, Compost_kg/ha: 1000}.
C7_DapCredit ==
    Returned =>
        LET plan == response.fert_plan IN
        /\ InPlan("DAP_kg/ha") <=> frame.need_P2O5 > 0
        /\ InPlan("DAP_kg/ha") => plan["DAP_kg/ha"] = CeilDiv(frame.need_P2O5, 4600)
        /\ frame.N_from_dap =
              (IF InPlan("DAP_kg/ha") THEN 1800 * plan["DAP_kg/ha"] ELSE 0)
        /\ InPlan("Urea_kg/ha") <=> frame.need_N > frame.N_from_dap
        /\ InPlan("Urea_kg/ha") =>
              plan["Urea_kg/ha"] = CeilDiv(frame.need_N - frame.N_from_dap, 4600)
        /\ (request.crop = Str(wheat) /\ request.inputs = WheatScenario) =>
              /\ DOMAIN plan = {"DAP_kg/ha", "Urea_kg/ha", "Compost_kg/ha"}
              /\ plan["DAP_kg/ha"] = 120
              /\ plan["Urea_kg/ha"] = 1
              /\ plan["Compost_kg/ha"] = 1000

\* a positive nitrogen gap was covered by the DAP credit: no Urea
C7_Witness ==
    /\ Returned
    /\ frame.need_N > 0
    /\ InPlan("DAP_kg/ha")
    /\ frame.N_from_dap >= frame.need_N
    /\ ~InPlan("Urea_kg/ha")

\* the wheat scenario of the specification was answered
WheatScenarioAnswered ==
    Returned /\ request.crop = Str(wheat) /\ request.inputs = WheatScenario

Unparseable == Str(<<"g","a","r","b","a","g","e">>)

\* no threshold rule of reading k has fired
NoRuleOf(k) ==
    /\ k \in {"S", "Zn", "B", "OC"} => ~InPlan(ProductOf(k))
    /\ k \in {"Fe", "Cu", "Mn", "EC"} => k \notin Texts
    /\ k = "pH" => ("acidic" \notin Texts /\ "alkaline" \notin Texts)

=============================================================================
